---- MODULE Spec2Model ----
(***************************************************************************)
(* Model of src/src/main.mts: the Moonwell token tag service.              *)
(*                                                                         *)
(* Text is modelled as a sequence of tokens.  A symbol, a token name and    *)
(* an access key are sequences of one-character tokens, so that length,     *)
(* substring, trimming, pattern matching and URI encoding are computed on   *)
(* them; fixed literals of the source are single tokens.                    *)
(***************************************************************************)
EXTENDS Integers, Sequences, FiniteSets, TLC

VARIABLES
    pc,             \* position of returnTags: "idle", "await" or "done"
    chainId,        \* argument chainId of returnTags
    apiKey,         \* argument apiKey of returnTags
    url,            \* const url
    allTags,        \* let allTags
    lastTimestamp,  \* let lastTimestamp
    isMore,         \* let isMore
    upstream,       \* the market records the subgraph holds
    response,       \* the settled outcome of the awaited fetch, or NoResponse
    inFlight,       \* number of requests issued and not yet answered
    queries,        \* the lastTimestamp variable of every request sent, in order
    received,       \* the transport outcome every fetchData call worked on, in order
    fetched,        \* the outcome of every fetchData call, in order
    logs,           \* console output, in order
    result          \* how returnTags settled

vars == <<pc, chainId, apiKey, url, allTags, lastTimestamp, isMore, upstream,
          response, inFlight, queries, received, fetched, logs, result>>

----------------------------------------------------------------------------
(* Bounds *)

\* Stand-in for the page size 1000 (`first: 1000` and `markets.length === 1000`).
PageSize == 2
\* Largest number of requests a call is followed for.
MaxQueries == 3
\* Largest number of markets of a faithful subgraph.
MaxMarkets == 4
\* Largest createdTimestamp of a faithful subgraph.
MaxTimestamp == 3

----------------------------------------------------------------------------
(* Generic helpers *)

Range(s) == {s[i] : i \in 1..Len(s)}

Rep(c, n) == [i \in 1..n |-> c]

RECURSIVE Flatten(_)
Flatten(ss) == IF ss = <<>> THEN <<>> ELSE Head(ss) \o Flatten(Tail(ss))

\* Math.max over a non-empty list of numbers
MathMax(ns) == CHOOSE m \in Range(ns) : \A n \in Range(ns) : n <= m

----------------------------------------------------------------------------
(* Static configuration *)

Placeholder == "[api-key]"

SUBGRAPH_URLS ==
    [c \in {"1284", "1285", "8453"} |->
        CASE c = "1284" -> <<"https://gateway.thegraph.com/api/", Placeholder,
                             "/subgraphs/id/DQhrdUHwspQf3hSjDtyfS6uqq9YiKoLF3Ut3U9os2HK">>
          [] c = "1285" -> <<"https://gateway.thegraph.com/api/", Placeholder,
                             "/subgraphs/id/8ayELti1UNCNCWuvwSwapjh4mvvCejeXsk4PmsWBmQ82">>
          [] c = "8453" -> <<"https://gateway.thegraph.com/api/", Placeholder,
                             "/subgraphs/id/33ex1ExmYQtwGVwri1AP3oMFPGSce6YbocBP7fWbsBrg">>]

\* Object.keys(SUBGRAPH_URLS): integer-like keys in ascending numeric order
SubgraphKeys == <<"1284", "1285", "8453">>

\* Property names every plain object inherits from Object.prototype
InheritedKeys == {"constructor", "toString"}

\* SUBGRAPH_URLS[chainId] is truthy
HasUrls(c) == c \in DOMAIN SUBGRAPH_URLS \/ c \in InheritedKeys

\* The chain identifiers a call is made with
ChainIds == {"1284", "1285", "8453", "1", "", " 8453", "0x504", "base", "constructor"}

\* isNaN(Number(chainId)) on ChainIds: Number("") is 0, Number(" 8453") is 8453,
\* Number("0x504") is 1284
NumberIsNaN(c) == c \notin {"1284", "1285", "8453", "1", "", " 8453", "0x504"}

----------------------------------------------------------------------------
(* Thrown values *)

\* new Error(message)
NewError(name, message) ==
    [type |-> "object", name |-> name, hasMessage |-> TRUE,
     messageType |-> "string", message |-> message]

\* Values that are not errors: a string, an object without message, an object
\* whose message is a number
NonErrors ==
    { [type |-> "string", name |-> "", hasMessage |-> FALSE,
       messageType |-> "undefined", message |-> <<>>],
      [type |-> "object", name |-> "", hasMessage |-> FALSE,
       messageType |-> "undefined", message |-> <<>>],
      [type |-> "object", name |-> "", hasMessage |-> TRUE,
       messageType |-> "number", message |-> <<>>] }

isError(e) ==
    /\ e.type = "object"
    /\ e.hasMessage
    /\ e.messageType = "string"

\* `${error}` of an Error: Error.prototype.toString
ErrorToString(e) ==
    IF e.message = <<>> THEN <<e.name>> ELSE <<e.name, ": ">> \o e.message

----------------------------------------------------------------------------
(* Text functions *)

\* /<[^>]*>/.test(text)
containsHtml(text) ==
    \E i \in 1..Len(text) :
        /\ text[i] = "<"
        /\ \E j \in (i + 1)..Len(text) :
              /\ text[j] = ">"
              /\ \A k \in (i + 1)..(j - 1) : text[k] # ">"

WhiteSpace == {" ", "\t", "\n"}

RECURSIVE TrimStart(_)
TrimStart(text) ==
    IF text # <<>> /\ Head(text) \in WhiteSpace THEN TrimStart(Tail(text)) ELSE text

RECURSIVE TrimEnd(_)
TrimEnd(text) ==
    IF text # <<>> /\ text[Len(text)] \in WhiteSpace
        THEN TrimEnd(SubSeq(text, 1, Len(text) - 1))
        ELSE text

Trim(text) == TrimEnd(TrimStart(text))

containsInvalidValue_EmptyOnly(text) == Trim(text) = <<>>

containsInvalidValue(text) ==
    LET isEmpty == Trim(text) = <<>>
    IN  isEmpty \/ containsHtml(text)

\* String.prototype.substring(0, n)
Substring0(text, n) ==
    SubSeq(text, 1, IF n < 0 THEN 0 ELSE IF n > Len(text) THEN Len(text) ELSE n)

truncateString_OffByOne(text, maxLength) ==
    IF Len(text) >= maxLength
        THEN Substring0(text, maxLength - 3) \o <<".", ".", ".">>
        ELSE text

truncateString(text, maxLength) ==
    IF Len(text) > maxLength
        THEN Substring0(text, maxLength - 3) \o <<".", ".", ".">>
        ELSE text

maxNameLength == 44

\* Characters encodeURIComponent leaves alone, among those of the keys used
Unreserved == {"a", "b", "0", "7", "-", "_", ".", "~", "!"}

LoneSurrogate == "\\uD800"

PercentCode(c) ==
    CASE c = "/" -> <<"%", "2", "F">>
      [] c = "$" -> <<"%", "2", "4">>
      [] c = "&" -> <<"%", "2", "6">>
      [] c = " " -> <<"%", "2", "0">>
      [] c = "[" -> <<"%", "5", "B">>
      [] c = "]" -> <<"%", "5", "D">>
      [] OTHER   -> <<c>>

\* encodeURIComponent(text); throws URIError on a lone surrogate
EncodeThrows(text) == LoneSurrogate \in Range(text)

encodeURIComponent(text) ==
    Flatten([i \in 1..Len(text) |->
                IF text[i] \in Unreserved THEN <<text[i]>> ELSE PercentCode(text[i])])

\* String.prototype.replace(pattern, replacement) with a string pattern: only
\* the first occurrence is replaced
ReplaceFirst(text, pattern, replacement) ==
    IF pattern \notin Range(text)
        THEN text
        ELSE LET i == CHOOSE k \in 1..Len(text) :
                        /\ text[k] = pattern
                        /\ \A j \in 1..(k - 1) : text[j] # pattern
             IN  SubSeq(text, 1, i - 1) \o replacement \o SubSeq(text, i + 1, Len(text))

----------------------------------------------------------------------------
(* Endpoint resolver *)

UnsupportedMessage(c) ==
    <<"Unsupported or invalid Chain ID provided: ", c,
      ". Only the following values are accepted: ">>
    \o <<SubgraphKeys[1], ", ", SubgraphKeys[2], ", ", SubgraphKeys[3]>>

NoValue == <<>>

ChainRejected_And(c) == ~HasUrls(c) /\ NumberIsNaN(c)

\* TRUE when the guard of prepareUrl throws
ChainRejected(c) == ~HasUrls(c) \/ NumberIsNaN(c)

\* The settlement of prepareUrl(chainId, apiKey): a value or a thrown error.
\* Reading `.decentralized` of a missing entry, or calling `.replace` on the
\* missing property of an inherited one, throws a TypeError.
prepareUrl(c, k) ==
    IF ChainRejected(c)
        THEN [ok |-> FALSE, value |-> NoValue,
              error |-> NewError("Error", UnsupportedMessage(c))]
    ELSE IF c \notin DOMAIN SUBGRAPH_URLS
        THEN [ok |-> FALSE, value |-> NoValue,
              error |-> NewError("TypeError", <<"Cannot read properties of undefined">>)]
    ELSE IF EncodeThrows(k)
        THEN [ok |-> FALSE, value |-> NoValue,
              error |-> NewError("URIError", <<"URI malformed">>)]
    ELSE [ok |-> TRUE,
          value |-> ReplaceFirst(SUBGRAPH_URLS[c], Placeholder, encodeURIComponent(k)),
          error |-> NoValue]

----------------------------------------------------------------------------
(* Record validator and transformer *)

Market(id, name, symbol, ts) ==
    [outputToken |-> [id |-> id, name |-> name, symbol |-> symbol],
     createdTimestamp |-> ts]

TagKeys == {"Contract Address", "Public Name Tag", "Project Name",
            "UI/Website Link", "Public Note"}

\* The ContractTag built from one accepted market
ToTag(c, market) ==
    LET truncatedNameText == truncateString(market.outputToken.symbol, maxNameLength)
    IN  [f \in TagKeys |->
            CASE f = "Contract Address" -> <<"eip155:", c, ":", market.outputToken.id>>
              [] f = "Public Name Tag"  -> truncatedNameText \o <<" Token">>
              [] f = "Project Name"     -> <<"Moonwell">>
              [] f = "UI/Website Link"  -> <<"https://moonwell.fi/">>
              [] f = "Public Note"      -> <<"Moonwell's ">> \o market.outputToken.symbol
                                            \o <<" (">> \o market.outputToken.name
                                            \o <<") token contract.">>]

SymbolAccepted(market) == ~containsInvalidValue(market.outputToken.symbol)

validMarkets(markets) == SelectSeq(markets, SymbolAccepted)

transformMarketsToTags(c, markets) ==
    LET valid == validMarkets(markets)
    IN  [i \in 1..Len(valid) |-> ToTag(c, valid[i])]

\* console.log("Rejected markets:", rejectedSymbols)
RejectedLog(markets) ==
    LET Rejected(m) == ~SymbolAccepted(m)
        Line(m) == <<"Market: ", m.outputToken.id,
                     " rejected due to invalid symbol - Symbol: ">> \o m.outputToken.symbol
        rejected == SelectSeq(markets, Rejected)
        rejectedSymbols == [i \in 1..Len(rejected) |-> Line(rejected[i])]
    IN  IF Len(rejectedSymbols) > 0
            THEN << <<"Rejected markets:">> \o Flatten(rejectedSymbols) >>
            ELSE <<>>

----------------------------------------------------------------------------
(* Query executor *)

NoResponse == [kind |-> "none"]

\* fetch() rejected with the value thrown
Rejected(thrown) == [kind |-> "reject", thrown |-> thrown]

\* fetch() resolved with a response whose body is not JSON
NotJson(ok, status) == [kind |-> "http", ok |-> ok, status |-> status, json |-> FALSE]

\* fetch() resolved with a response with a JSON body; errors and markets are
\* lists, hasErrors, hasData and hasMarkets tell which fields the body carries
Json(ok, status, hasErrors, errors, hasData, hasMarkets, markets) ==
    [kind |-> "http", ok |-> ok, status |-> status, json |-> TRUE,
     hasErrors |-> hasErrors, errors |-> errors,
     hasData |-> hasData, hasMarkets |-> hasMarkets, markets |-> markets]

PageOf(markets) == Json(TRUE, "200", FALSE, <<>>, TRUE, TRUE, markets)

Threw(error, lines) == [ok |-> FALSE, markets |-> <<>>, error |-> error, logs |-> lines]

\* `if (result.errors)`
ErrorsTruthy(r) == r.hasErrors

\* The settlement of fetchData on the transport's outcome r
fetchData(r) ==
    IF r.kind = "reject"
        THEN Threw(r.thrown, <<>>)
    ELSE IF ~r.ok
        THEN Threw(NewError("Error", <<"HTTP error: ", r.status>>), <<>>)
    ELSE IF ~r.json
        THEN Threw(NewError("SyntaxError", <<"Unexpected token in JSON">>), <<>>)
    ELSE IF ErrorsTruthy(r)
        THEN Threw(NewError("Error", <<"GraphQL errors occurred: see logs for details.">>),
                   [i \in 1..Len(r.errors) |-> <<"GraphQL error: ", r.errors[i]>>])
    ELSE IF ~r.hasData \/ ~r.hasMarkets
        THEN Threw(NewError("Error", <<"No markets data found.">>), <<>>)
    ELSE [ok |-> TRUE, markets |-> r.markets, error |-> NoValue, logs |-> <<>>]

----------------------------------------------------------------------------
(* Inputs *)

\* The access keys a call is made with: unreserved characters only, reserved
\* characters, and one that is not well-formed UTF-16
ApiKeys == { <<"a", "b", "0", "7">>, <<"a", "/", "$", "&">>, <<"a", LoneSurrogate>> }

SymABC == <<"A", "B", "C">>
SymPadded == <<" ", "m", "G", "L", "M", "R", " ">>
SymBlank == <<" ", "\t", " ">>
SymHtml == <<"m", "<", "b", ">", "X">>
SymEmptyTag == <<"<", ">">>
SymOpenOnly == <<"a", "<", "b">>
SymCloseOpen == <<">", "x", "<">>
Sym44 == Rep("w", 44)
Sym45 == Rep("y", 41) \o <<"1", "2", "3", "4">>
Sym50 == Rep("z", 50)
SymLongHtml == Rep("q", 45) \o <<"<", "i", ">">>

\* The record sets an arbitrarily answering subgraph draws its pages from
Universes ==
    { << Market("0xAAA", <<"N", "1">>, SymABC, 1), Market("0xBBB", <<"N", "2">>, <<>>, 2) >>,
      << Market("0xAAA", <<"N", "1">>, Sym45, 3), Market("0xBBB", <<"N", "2">>, Sym44, 1) >>,
      << Market("0xAAA", <<"N", "1">>, SymHtml, 2), Market("0xBBB", <<"N", "2">>, SymBlank, 2) >>,
      << Market("0xAAA", <<"N", "1">>, SymOpenOnly, 2), Market("0xBBB", <<"N", "2">>, SymEmptyTag, 3) >>,
      << Market("0xAAA", <<"N", "1">>, SymCloseOpen, 1), Market("0xBBB", <<"N", "2">>, SymLongHtml, 2) >>,
      << Market("0xAAA", <<"N", "1">>, Sym50, 2), Market("0xBBB", <<"N", "2">>, SymPadded, 1) >> }

\* All lists of at most n elements of S
SeqsUpTo(S, n) == UNION {[1..k -> S] : k \in 0..n}

\* The symbols of the markets of a faithful subgraph
DatasetSymbols == {SymABC, <<>>}

\* The contents of a faithful subgraph: at most MaxMarkets markets with distinct
\* ids, listed in the order `orderBy: createdTimestamp, orderDirection: asc`
Datasets ==
    { ms \in UNION { [1..k -> [sym : DatasetSymbols, ts : 1..MaxTimestamp]] : k \in 0..MaxMarkets } :
        \A i \in 1..(Len(ms) - 1) : ms[i].ts <= ms[i + 1].ts }

DatasetMarkets(d) ==
    [i \in 1..Len(d) |-> Market("0x" \o ToString(i), <<"N">>, d[i].sym, d[i].ts)]

----------------------------------------------------------------------------
(* State machine *)

InitLocals ==
    /\ pc = "idle"
    /\ chainId = NoValue
    /\ apiKey = NoValue
    /\ url = NoValue
    /\ allTags = <<>>
    /\ lastTimestamp = 0
    /\ isMore = TRUE
    /\ response = NoResponse
    /\ inFlight = 0
    /\ queries = <<>>
    /\ received = <<>>
    /\ fetched = <<>>
    /\ logs = <<>>
    /\ result = [kind |-> "none"]

\* A subgraph that may answer anything
Init == InitLocals /\ upstream \in Universes

\* A subgraph that holds a fixed dataset
InitFaithful == InitLocals /\ \E d \in Datasets : upstream = DatasetMarkets(d)

Returned(tags) == [kind |-> "return", tags |-> tags]
Raised(error) == [kind |-> "raise", error |-> error]

\* `while (isMore)` with the request budget of the model
CanIssue(more) == more /\ Len(queries) < MaxQueries

\* The catch clause: the console line and the error thrown for a caught value
CatchLog(e) ==
    IF isError(e) THEN <<"An error occurred: ">> \o e.message
                  ELSE <<"An unknown error occurred.">>

CatchThrow_Rethrow(e) == e

CatchThrow(e) ==
    IF isError(e)
        THEN NewError("Error", <<"Failed fetching data: ">> \o ErrorToString(e))
        ELSE NewError("Error", <<"An unknown error occurred during fetch operation.">>)

Caught_ReturnsPartial(e, tags) == Returned(tags)

\* The settlement of returnTags when the loop body throws e with tags accumulated
Caught(e, tags) == Raised(CatchThrow(e))

MorePages_NonEmpty(markets) == Len(markets) > 0

\* `isMore = markets.length === 1000`
MorePages(markets) == Len(markets) = PageSize

NextTimestamp_First(more, markets, last) ==
    IF more THEN markets[1].createdTimestamp ELSE last

NextTimestamp_Stuck(more, markets, last) == last

\* The cursor after a page
NextTimestamp(more, markets, last) ==
    IF more
        THEN MathMax([i \in 1..Len(markets) |-> markets[i].createdTimestamp])
        ELSE last

\* returnTags(c, k) up to its first await, or to the throw of prepareUrl
Call(c, k) ==
    /\ pc = "idle"
    /\ chainId' = c
    /\ apiKey' = k
    /\ LET p == prepareUrl(c, k)
       IN  IF p.ok
               THEN /\ url' = p.value
                    /\ pc' = "await"
                    /\ queries' = Append(queries, lastTimestamp)
                    /\ inFlight' = inFlight + 1
                    /\ UNCHANGED result
               ELSE /\ pc' = "done"
                    /\ result' = Raised(p.error)
                    /\ UNCHANGED <<url, queries, inFlight>>
    /\ UNCHANGED <<allTags, lastTimestamp, isMore, upstream, response, received, fetched, logs>>

Deliver(r) ==
    /\ pc = "await"
    /\ inFlight > 0
    /\ response = NoResponse
    /\ response' = r
    /\ inFlight' = inFlight - 1
    /\ UNCHANGED <<pc, chainId, apiKey, url, allTags, lastTimestamp, isMore, upstream,
                   queries, received, fetched, logs, result>>

\* The pages an arbitrarily answering subgraph may send: any list of at most
\* PageSize of its records, a full one only while the request budget lasts
ArbitraryPages ==
    { p \in SeqsUpTo(Range(upstream), PageSize) :
        Len(p) = PageSize => Len(queries) < MaxQueries }

RespondPage == \E p \in ArbitraryPages : Deliver(PageOf(p))

\* `where: { createdTimestamp_gt: $lastTimestamp }`
AfterCursor(cursor) ==
    LET Later(m) == m.createdTimestamp > cursor IN SelectSeq(upstream, Later)

\* `first: 1000`
FirstN(ms, n) == SubSeq(ms, 1, IF Len(ms) < n THEN Len(ms) ELSE n)

\* The answer of GET_MARKETS_QUERY for the cursor sent
FaithfulPage(cursor) == FirstN(AfterCursor(cursor), PageSize)

RespondFaithful ==
    /\ pc = "await"
    /\ \E p \in {FaithfulPage(queries[Len(queries)])} : Deliver(PageOf(p))

\* The responses that are not a plain page
OtherResponses ==
    LET samples == {<<>>} \cup {<<upstream[i]>> : i \in 1..(IF upstream = <<>> THEN 0 ELSE 1)}
    IN  {Rejected(NewError("FetchError", <<"request failed">>))}
        \cup {Rejected(v) : v \in NonErrors}
        \cup {NotJson(TRUE, "200"), NotJson(FALSE, "500")}
        \cup {Json(TRUE, "200", TRUE, <<>>, TRUE, TRUE, p) : p \in samples}
        \cup {Json(FALSE, "500", FALSE, <<>>, TRUE, TRUE, <<>>),
              Json(TRUE, "200", TRUE, <<"boom">>, TRUE, TRUE, <<>>),
              Json(TRUE, "200", TRUE, <<"boom", "bang">>, FALSE, FALSE, <<>>),
              Json(TRUE, "200", FALSE, <<>>, FALSE, FALSE, <<>>),
              Json(TRUE, "200", FALSE, <<>>, TRUE, FALSE, <<>>)}

RespondOther == \E r \in OtherResponses : Deliver(r)

\* returnTags from the settlement of its await to the next await, to its return
\* or to its throw
Resume ==
    /\ pc = "await"
    /\ response # NoResponse
    /\ LET f == fetchData(response)
       IN  /\ received' = Append(received, response)
           /\ fetched' = Append(fetched, f)
           /\ response' = NoResponse
           /\ IF f.ok
                 THEN LET markets == f.markets
                          tags == transformMarketsToTags(chainId, markets)
                          more == MorePages(markets)
                      IN  /\ more => CanIssue(more)
                          /\ allTags' = allTags \o tags
                          /\ logs' = logs \o f.logs \o RejectedLog(markets)
                          /\ isMore' = more
                          /\ lastTimestamp' = NextTimestamp(more, markets, lastTimestamp)
                          /\ IF more
                                THEN /\ queries' = Append(queries, lastTimestamp')
                                     /\ inFlight' = inFlight + 1
                                     /\ UNCHANGED <<pc, result>>
                                ELSE /\ pc' = "done"
                                     /\ result' = Returned(allTags')
                                     /\ UNCHANGED <<queries, inFlight>>
                 ELSE /\ logs' = logs \o f.logs \o <<CatchLog(f.error)>>
                      /\ pc' = "done"
                      /\ result' = Caught(f.error, allTags)
                      /\ UNCHANGED <<allTags, isMore, lastTimestamp, queries, inFlight>>
    /\ UNCHANGED <<chainId, apiKey, url, upstream>>

Invoke == \E c \in ChainIds, k \in ApiKeys : Call(c, k)

Next == Invoke \/ RespondPage \/ RespondOther \/ Resume

Spec == Init /\ [][Next]_vars

NextFaithful == Invoke \/ RespondFaithful \/ RespondOther \/ Resume

SpecFaithful == InitFaithful /\ [][NextFaithful]_vars

\* The subgraph answers every request and the event loop runs every continuation
FairFaithful == SpecFaithful /\ WF_vars(NextFaithful)

----------------------------------------------------------------------------
(* Properties *)

Last(s) == s[Len(s)]

PageLen(i) == Len(fetched[i].markets)

AllFetchedOk == \A i \in 1..Len(fetched) : fetched[i].ok

\* The records of every page fetched, in arrival order
AllRecords == Flatten([i \in 1..Len(fetched) |-> fetched[i].markets])

\* A symbol that is not empty, not white space only, and has no '<' followed
\* somewhere by '>'
SymbolIsValid(sym) ==
    /\ \E i \in 1..Len(sym) : sym[i] \notin WhiteSpace
    /\ ~\E i \in 1..Len(sym) : sym[i] = "<" /\ \E j \in (i + 1)..Len(sym) : sym[j] = ">"

RecordIsValid(m) == SymbolIsValid(m.outputToken.symbol)

\* C1: a further query follows a page exactly when the page holds PageSize
\* records, so a call that returns has issued as many queries as the index of
\* the first page shorter than PageSize.
C1_QueryAfterFullPageOnly ==
    /\ \A i \in 1..Len(fetched) :
          fetched[i].ok => (Len(queries) > i <=> PageLen(i) = PageSize)
    /\ result.kind = "return" =>
          /\ Len(queries) = Len(fetched)
          /\ PageLen(Len(queries)) < PageSize
          /\ \A j \in 1..(Len(queries) - 1) : ~(PageLen(j) < PageSize)

C1_Witness ==
    /\ result.kind = "return"
    /\ Len(queries) = 3
    /\ PageLen(1) = PageSize /\ PageLen(2) = PageSize
    /\ PageLen(3) > 0 /\ PageLen(3) < PageSize

\* tags is the list of the tags of the records ms, one each, in their order
RECURSIVE TagsAreOf(_, _)
TagsAreOf(tags, ms) ==
    IF ms = <<>>
        THEN tags = <<>>
        ELSE /\ tags # <<>>
             /\ Head(tags) = ToTag(chainId, Head(ms))
             /\ TagsAreOf(Tail(tags), Tail(ms))

\* C2: the list returned is the tags of the records with a valid symbol, over
\* all pages fetched, the last short one included, in page order and in the
\* order within each page, nothing added, dropped, moved or merged.
C2_ReturnedTagsAreValidRecordsInOrder ==
    result.kind = "return" => TagsAreOf(result.tags, SelectSeq(AllRecords, RecordIsValid))

C2_Witness ==
    /\ result.kind = "return"
    /\ Len(fetched) = 3
    /\ PageLen(3) > 0
    /\ \E k \in 1..Len(AllRecords) : ~RecordIsValid(AllRecords[k])
    /\ \E k \in 2..Len(AllRecords) :
          /\ RecordIsValid(AllRecords[k]) /\ RecordIsValid(AllRecords[k - 1])
          /\ AllRecords[k] = AllRecords[k - 1]
    /\ Len(result.tags) >= 3

\* C3: when a query fails, it is the last query issued, the call is over and
\* has raised, and no list, not even the tags of the pages before, is returned.
C3_FailedQueryAbortsCall ==
    \A i \in 1..Len(fetched) :
        ~fetched[i].ok =>
            /\ i = Len(fetched)
            /\ Len(queries) = i
            /\ inFlight = 0 /\ response = NoResponse
            /\ pc = "done"
            /\ result.kind = "raise"
            /\ "tags" \notin DOMAIN result

C3_Witness ==
    /\ Len(fetched) = 3
    /\ fetched[1].ok /\ fetched[2].ok /\ ~fetched[3].ok
    /\ allTags # <<>>
    /\ result.kind = "raise"

Supported == {"1284", "1285", "8453"}

KeyIsWellFormed(k) == LoneSurrogate \notin Range(k)

KeyIsUnreserved(k) == \A i \in 1..Len(k) : k[i] \in Unreserved

MessageListsSupported(e) == \A c \in Supported : c \in Range(e.message)

\* C4 as first stated: prepareUrl succeeds exactly for the three chain ids and
\* then puts the access key itself in the place of the placeholder.
C4_KeySubstitutedVerbatim ==
    pc # "idle" =>
        /\ url # NoValue <=> chainId \in Supported
        /\ chainId \in Supported =>
              url = <<SUBGRAPH_URLS[chainId][1]>> \o apiKey \o <<SUBGRAPH_URLS[chainId][3]>>
        /\ chainId \notin Supported =>
              /\ result.kind = "raise" /\ MessageListsSupported(result.error)
              /\ queries = <<>>

\* C4 amended: prepareUrl succeeds exactly for the chain ids 1284, 1285 and 8453
\* with an access key that can be URI-encoded, and puts the URI-encoded key (the
\* key itself when all its characters are unreserved) once in the place of the
\* placeholder; any other chain id fails with a message listing the three ids,
\* a key that cannot be encoded fails with a URIError, and in both cases
\* returnTags raises without issuing a query.
C4_EncodedKeySubstitutedOnce ==
    pc # "idle" =>
        /\ url # NoValue <=> (chainId \in Supported /\ KeyIsWellFormed(apiKey))
        /\ url # NoValue =>
              /\ url = <<SUBGRAPH_URLS[chainId][1]>> \o encodeURIComponent(apiKey)
                         \o <<SUBGRAPH_URLS[chainId][3]>>
              /\ Placeholder \notin Range(url)
              /\ \A i \in 1..Len(apiKey) :
                    apiKey[i] \notin Unreserved => apiKey[i] \notin Range(url)
              /\ KeyIsUnreserved(apiKey) => SubSeq(url, 2, Len(url) - 1) = apiKey
              /\ queries # <<>>
        /\ chainId \notin Supported =>
              /\ result.kind = "raise" /\ MessageListsSupported(result.error)
              /\ result.error.message[2] = chainId
              /\ queries = <<>> /\ pc = "done"
        /\ (chainId \in Supported /\ ~KeyIsWellFormed(apiKey)) =>
              /\ result.kind = "raise" /\ result.error.name = "URIError"
              /\ queries = <<>> /\ pc = "done"

C4_Witness ==
    /\ chainId = "8453"
    /\ ~KeyIsUnreserved(apiKey) /\ KeyIsWellFormed(apiKey)
    /\ Len(url) > Len(apiKey) + 2
    /\ Len(queries) = 1

WrappedMessages ==
    {"Failed fetching data: ", "An unknown error occurred during fetch operation."}

ContextLines == {"An error occurred: ", "An unknown error occurred."}

\* C5 as first stated: every failure of returnTags, a rejected chain id
\* included, is logged and then raised as a new error with an enriched message.
C5_EveryFailureLoggedAndWrapped ==
    result.kind = "raise" =>
        /\ logs # <<>>
        /\ Last(logs)[1] \in ContextLines
        /\ result.error.message[1] \in WrappedMessages

\* C5 amended: a failure of a query is logged and then raised as a new error
\* whose message is "Failed fetching data: " and the text of the error caught,
\* or the generic message when the value caught has no string message; a
\* failure of prepareUrl is raised as it is, not logged and not rewrapped.
C5_QueryFailureLoggedAndWrapped ==
    result.kind = "raise" =>
        IF fetched = <<>>
            THEN /\ logs = <<>>
                 /\ result.error = prepareUrl(chainId, apiKey).error
                 /\ result.error.message[1] \notin WrappedMessages
            ELSE LET e == Last(fetched).error
                     recognizable == e.type = "object" /\ e.hasMessage
                                     /\ e.messageType = "string"
                 IN  /\ result.error.name = "Error"
                     /\ recognizable =>
                           /\ Last(logs) = <<"An error occurred: ">> \o e.message
                           /\ result.error.message =
                                 <<"Failed fetching data: ", e.name, ": ">> \o e.message
                     /\ ~recognizable =>
                           /\ Last(logs) = <<"An unknown error occurred.">>
                           /\ result.error.message =
                                 <<"An unknown error occurred during fetch operation.">>

C5_Witness ==
    /\ result.kind = "raise"
    /\ Len(fetched) = 2
    /\ received[2].kind = "reject"
    /\ received[2].thrown \in NonErrors
    /\ Len(logs) >= 2

\* C6: for a response with a JSON body, fetchData fails exactly when the status
\* is not a success, the errors list is not empty, or data.markets is missing,
\* and otherwise returns the markets of the response.
C6_FetchFailsOnThreeConditionsOnly ==
    \A i \in 1..Len(fetched) :
        LET r == received[i]
            f == fetched[i]
        IN  (r.kind = "http" /\ r.json) =>
                /\ ~f.ok <=> \/ ~r.ok
                             \/ (r.hasErrors /\ r.errors # <<>>)
                             \/ ~(r.hasData /\ r.hasMarkets)
                /\ f.ok => f.markets = r.markets

\* The tag of record m shows its symbol cut to 44 characters and notes it whole
TagShows(tag, m) ==
    LET sym == m.outputToken.symbol
        shown == IF Len(sym) <= 44 THEN sym ELSE SubSeq(sym, 1, 41) \o <<".", ".", ".">>
    IN  /\ tag["Public Name Tag"] = shown \o <<" Token">>
        /\ Len(sym) > 44 => Len(shown) = 44
        /\ tag["Public Note"] =
              <<"Moonwell's ">> \o sym \o <<" (">> \o m.outputToken.name
                \o <<") token contract.">>

RECURSIVE TagsShow(_, _)
TagsShow(tags, ms) ==
    IF ms = <<>>
        THEN tags = <<>>
        ELSE /\ tags # <<>>
             /\ TagShows(Head(tags), Head(ms))
             /\ TagsShow(Tail(tags), Tail(ms))

\* C7: the symbol shown in the Public Name Tag of an accepted record is the
\* symbol when it has at most 44 characters and else its first 41 characters
\* and three dots, 44 characters in all; the name tag is that and " Token", and
\* the Public Note holds the whole symbol.
C7_NameTagTruncatedTo44 ==
    result.kind = "return" => TagsShow(result.tags, SelectSeq(AllRecords, RecordIsValid))

C7_Witness ==
    /\ result.kind = "return"
    /\ \E k \in 1..Len(result.tags) :
          /\ Len(result.tags[k]["Public Name Tag"]) = 45
          /\ result.tags[k]["Public Name Tag"][44] = "."
          /\ Len(result.tags[k]["Public Note"]) = 45 + 5
    /\ \E k \in 1..Len(result.tags) :
          /\ Len(result.tags[k]["Public Name Tag"]) = 45
          /\ result.tags[k]["Public Name Tag"][44] = "w"

PageMax(i) ==
    CHOOSE t \in {fetched[i].markets[k].createdTimestamp : k \in 1..PageLen(i)} :
        \A k \in 1..PageLen(i) : fetched[i].markets[k].createdTimestamp <= t

PageIsAfter(i, cursor) ==
    \A k \in 1..PageLen(i) : fetched[i].markets[k].createdTimestamp > cursor

\* C8 as first stated: the first query carries 0 and after each page received
\* the cursor is the largest createdTimestamp of that page.
C8_CursorAdvancedAfterEachPage ==
    /\ queries # <<>> => queries[1] = 0
    /\ \A i \in 1..Len(fetched) :
          (i = Len(fetched) /\ fetched[i].ok /\ PageLen(i) > 0) =>
              lastTimestamp = PageMax(i)

\* C8 amended: the first query carries 0; after each page of exactly PageSize
\* records the cursor is the largest createdTimestamp of that page, and the next
\* query carries it; after a shorter page, the last one, the cursor is left as
\* it was; and when every page holds only records later than the cursor it was
\* asked with, the cursor never decreases.
C8_CursorAdvancedAfterFullPage ==
    /\ queries # <<>> => queries[1] = 0
    /\ lastTimestamp = IF queries = <<>> THEN 0 ELSE Last(queries)
    /\ \A i \in 2..Len(queries) :
          /\ fetched[i - 1].ok /\ PageLen(i - 1) = PageSize
          /\ queries[i] = PageMax(i - 1)
    /\ (\A i \in 1..Len(fetched) : PageIsAfter(i, queries[i])) =>
          \A i \in 2..Len(queries) : queries[i - 1] <= queries[i]

C8_Witness ==
    /\ result.kind = "return"
    /\ Len(queries) = 3
    /\ \A i \in 1..3 : PageIsAfter(i, queries[i])
    /\ 0 < queries[2] /\ queries[2] < queries[3]
    /\ PageLen(3) = 0
    /\ lastTimestamp = queries[3]

\* C9: with a subgraph that answers every query, returnTags ends; it never has
\* more than one request open, a continuation runs only with no request open,
\* and when every query was answered with its page it returns after a page of
\* fewer than PageSize records.
C9_TerminatesOneRequestAtATime ==
    /\ <>(pc = "done")
    /\ [](inFlight <= 1 /\ (response # NoResponse => inFlight = 0))
    /\ []((pc = "done" /\ fetched # <<>> /\ AllFetchedOk) =>
            (result.kind = "return" /\ PageLen(Len(fetched)) < PageSize))

C9_Witness ==
    /\ pc = "done"
    /\ result.kind = "return"
    /\ AllFetchedOk
    /\ Len(queries) >= 2
    /\ PageLen(Len(queries)) > 0

\* C10: with a subgraph that answers every query faithfully, the list returned
\* holds the tag of every market with a valid symbol exactly once, whatever the
\* dataset, equal timestamps across a page boundary included.
C10_EveryValidMarketReturnedOnce ==
    (result.kind = "return" /\ AllFetchedOk) =>
        TagsAreOf(result.tags, SelectSeq(upstream, RecordIsValid))

====
